---- MODULE Spec2Model ----
(***************************************************************************)
(* Model of the VfsHost resolver engine of deno-eslint (src/VfsHost.ts):   *)
(* import-map specifier resolution, URL -> virtual path mapping, and the   *)
(* recursive, concurrent loadFile / loadLibFile machinery that fills the   *)
(* virtual file store (the Map the host extends).                          *)
(*                                                                         *)
(* Strings of the program are TLA+ strings; URLs are their href strings.   *)
(***************************************************************************)
EXTENDS Integers, Sequences, FiniteSets, TLC

(***************************************************************************)
(* String helpers (String.prototype.startsWith / endsWith / slice).        *)
(***************************************************************************)
StartsWith(s, p) == Len(p) <= Len(s) /\ SubSeq(s, 1, Len(p)) = p

EndsWith(s, p) == Len(p) <= Len(s) /\ SubSeq(s, Len(s) - Len(p) + 1, Len(s)) = p

\* s.slice(n) for 0 <= n
Slice(s, n) == IF n >= Len(s) THEN "" ELSE SubSeq(s, n + 1, Len(s))

CharAt(s, i) == SubSeq(s, i, i)

\* the least and the greatest of a set of indices, 0 for the empty set
Least(S) == IF S = {} THEN 0 ELSE CHOOSE i \in S : \A j \in S : i <= j

Greatest(S) == IF S = {} THEN 0 ELSE CHOOSE i \in S : \A j \in S : i >= j

\* least index >= from at which character c occurs in s, 0 when there is none
IndexFrom(s, c, from) == Least({i \in from..Len(s) : CharAt(s, i) = c})

\* greatest index <= from at which character c occurs in s, 0 when there is none
LastIndexFrom(s, c, from) == Greatest({i \in 1..from : CharAt(s, i) = c})

\* least index >= from at which character c occurs in s, Len(s) + 1 when there
\* is none
Find(s, c, from) ==
  Least({i \in from..(Len(s) + 1) : i = Len(s) + 1 \/ CharAt(s, i) = c})

Letters ==
  {"a", "b", "c", "d", "e", "f", "g", "h", "i", "j", "k", "l", "m",
   "n", "o", "p", "q", "r", "s", "t", "u", "v", "w", "x", "y", "z"}

UpperLetters ==
  {"A", "B", "C", "D", "E", "F", "G", "H", "I", "J", "K", "L", "M",
   "N", "O", "P", "Q", "R", "S", "T", "U", "V", "W", "X", "Y", "Z"}

LowerOf(c) ==
  CASE c = "A" -> "a" [] c = "B" -> "b" [] c = "C" -> "c" [] c = "D" -> "d"
    [] c = "E" -> "e" [] c = "F" -> "f" [] c = "G" -> "g" [] c = "H" -> "h"
    [] c = "I" -> "i" [] c = "J" -> "j" [] c = "K" -> "k" [] c = "L" -> "l"
    [] c = "M" -> "m" [] c = "N" -> "n" [] c = "O" -> "o" [] c = "P" -> "p"
    [] c = "Q" -> "q" [] c = "R" -> "r" [] c = "S" -> "s" [] c = "T" -> "t"
    [] c = "U" -> "u" [] c = "V" -> "v" [] c = "W" -> "w" [] c = "X" -> "x"
    [] c = "Y" -> "y" [] c = "Z" -> "z" [] OTHER -> c

\* String.prototype.toLowerCase
ToLowerCase(s) ==
  LET lower[i \in 0..Len(s)] ==
        IF i = 0 THEN "" ELSE lower[i - 1] \o LowerOf(CharAt(s, i))
  IN  lower[Len(s)]

(***************************************************************************)
(* The parts of the WHATWG URL class the program uses.                     *)
(***************************************************************************)
\* new URL(s) succeeds: s begins with a scheme (letters followed by ":")
HasScheme(s) ==
  \E i \in 2..Len(s) :
    /\ CharAt(s, i) = ":"
    /\ \A k \in 1..(i - 1) : CharAt(s, k) \in Letters \cup UpperLetters

\* url.protocol, e.g. "file:" or "https:"
Protocol(u) == SubSeq(u, 1, IndexFrom(u, ":", 1))

\* the href without its query string
StripSearch(u) == SubSeq(u, 1, Find(u, "?", 1) - 1)

\* url.search: the query string with its "?", "" when there is none
Search(u) == Slice(u, Find(u, "?", 1) - 1)

\* the URL has the form scheme://host/path (npm: and jsr: URLs have not)
HasAuthority(u) == StartsWith(Slice(u, Len(Protocol(u))), "//")

\* index of the "/" that starts the path of a scheme://host/path URL
PathStart(u) == IndexFrom(u, "/", Len(Protocol(u)) + 3)

\* url.host of a scheme://host/path URL ("" for file:///path)
Host(u) == SubSeq(u, Len(Protocol(u)) + 3, PathStart(u) - 1)

\* the path of a URL without query string; for a URL without "//" it is what
\* follows the scheme
PathOf(b) ==
  IF HasAuthority(b) THEN Slice(b, PathStart(b) - 1) ELSE Slice(b, Len(Protocol(b)))

\* url.pathname
Pathname(u) == PathOf(StripSearch(u))

\* scheme://host
Origin(u) == SubSeq(u, 1, PathStart(u) - 1)

\* everything up to and including the last "/"
DirOf(b) == SubSeq(b, 1, LastIndexFrom(b, "/", Len(b)))

\* the directory of the base URL: its href without query string up to and
\* including the last "/" of its path
BaseDir(u) == DirOf(StripSearch(u))

\* the path without its last segment
Up(path) == SubSeq(path, 1, LastIndexFrom(path, "/", Len(path)) - 1)

\* the first segment of a path that begins with "/", and what follows it
FirstSegment(rest) == SubSeq(rest, 2, Find(rest, "/", 2) - 1)

AfterFirst(rest) == Slice(rest, Find(rest, "/", 2) - 1)

\* the resolved path out with one more segment; "." and ".." name no segment,
\* ".." drops the last one and never leaves the root
WithSegment(out, seg, last) ==
  CASE seg = "." -> IF last THEN out \o "/" ELSE out
    [] seg = ".." -> IF last THEN Up(out) \o "/" ELSE Up(out)
    [] OTHER -> out \o "/" \o seg

\* the path rest ("" or beginning with "/") appended to out with its "." and
\* ".." segments resolved, as the URL parser does
RECURSIVE RemoveDotSegments(_, _)
RemoveDotSegments(out, rest) ==
  IF rest = "" THEN out
  ELSE RemoveDotSegments(WithSegment(out, FirstSegment(rest), AfterFirst(rest) = ""),
                         AfterFirst(rest))

\* the href of a URL given without and with its query string: the path of a
\* scheme://host/path URL is normalised, the query string is kept
Normalised(b, search) ==
  IF HasAuthority(b) /\ PathStart(b) # 0
  THEN Origin(b) \o RemoveDotSegments("", Slice(b, PathStart(b) - 1)) \o search
  ELSE b \o search

\* new URL(s).href for a string with a scheme
ParseUrl(s) == Normalised(StripSearch(s), Search(s))

\* new URL(rel, base).href
NewUrl(rel, base) ==
  ParseUrl(IF HasScheme(rel) THEN rel
           ELSE IF StartsWith(rel, "/") THEN Origin(base) \o rel
           ELSE BaseDir(base) \o rel)

(***************************************************************************)
(* Specifier resolution: the import-map part of #transformSpecifier.       *)
(* An import map is [imports |-> sequence of entries, scopes |-> sequence  *)
(* of [scope, mappings]]; sequences keep the order of Object.entries.      *)
(***************************************************************************)
\* resolvedUrl == null
NullUrl == ""

\* an isBareSpecifier that forgets the specifiers starting with "/"
isBareSpecifierNoSlash(specifier) ==
  IF HasScheme(specifier) THEN FALSE ELSE ~StartsWith(specifier, ".")

\* function isBareSpecifier
isBareSpecifier(specifier) ==
  IF HasScheme(specifier) THEN FALSE
  ELSE ~StartsWith(specifier, ".") /\ ~StartsWith(specifier, "/")

\* a match that does not compare the prefix lengths: the last match wins
EntryMatchesAnyLength(specifier, prefix, resolvedPrefix) ==
  \/ specifier = prefix
  \/ EndsWith(prefix, "/") /\ StartsWith(specifier, prefix)

\* the condition of the if inside both loops over import-map entries
EntryMatches(specifier, prefix, resolvedPrefix) ==
  \/ specifier = prefix
  \/ /\ EndsWith(prefix, "/")
     /\ StartsWith(specifier, prefix)
     /\ Len(prefix) > Len(resolvedPrefix)

\* new URL(replacement.href + specifier.slice(prefix.length))
Rewritten(specifier, e) ==
  ParseUrl(e.replacement \o Slice(specifier, Len(e.prefix)))

\* the loop "rewrite using import map imports", from entry i on
RECURSIVE ImportsLoop(_, _, _, _)
ImportsLoop(imports, i, specifier, r) ==
  IF i > Len(imports) THEN r
  ELSE LET e == imports[i]
       IN  ImportsLoop(imports, i + 1, specifier,
             IF EntryMatches(specifier, e.prefix, r.resolvedPrefix)
             THEN [r EXCEPT !.resolvedPrefix = e.prefix,
                            !.resolvedUrl = Rewritten(specifier, e)]
             ELSE r)

\* the inner loop over the mappings of one scope, from entry i on
RECURSIVE MappingsLoop(_, _, _, _, _)
MappingsLoop(scope, mappings, i, specifier, r) ==
  IF i > Len(mappings) THEN r
  ELSE LET e == mappings[i]
       IN  MappingsLoop(scope, mappings, i + 1, specifier,
             IF EntryMatches(specifier, e.prefix, r.resolvedPrefix)
             THEN [resolvedScope |-> scope,
                   resolvedPrefix |-> e.prefix,
                   resolvedUrl |-> Rewritten(specifier, e)]
             ELSE r)

\* the condition under which the mappings of a scope are looked at
ScopeApplies(source, scope, resolvedScope) ==
  StartsWith(source, scope) /\ Len(scope) > Len(resolvedScope)

\* the loop "rewrite using import map scopes", from scope i on
RECURSIVE ScopesLoop(_, _, _, _, _)
ScopesLoop(scopes, i, source, specifier, r) ==
  IF i > Len(scopes) THEN r
  ELSE LET s == scopes[i]
       IN  ScopesLoop(scopes, i + 1, source, specifier,
             IF ScopeApplies(source, s.scope, r.resolvedScope)
             THEN MappingsLoop(s.scope, s.mappings, 1, specifier, r)
             ELSE r)

\* the three locals of #transformSpecifier after both loops
MapLookup(map, source, specifier) ==
  ScopesLoop(map.scopes, 1, source, specifier,
    ImportsLoop(map.imports, 1, specifier,
      [resolvedScope |-> "", resolvedPrefix |-> "", resolvedUrl |-> NullUrl]))

\* what follows the two loops: the URL #transformSpecifier hands to loadFile,
\* or the failure it throws
AfterLookup(resolvedUrl, source, specifier) ==
  IF resolvedUrl # NullUrl
  THEN [ok |-> TRUE, url |-> resolvedUrl]
  ELSE IF isBareSpecifier(specifier)
  THEN [ok |-> FALSE, url |-> NullUrl]
  ELSE [ok |-> TRUE, url |-> NewUrl(specifier, source)]

\* #transformSpecifier up to the call of loadFile
resolveSpecifier(map, source, specifier) ==
  AfterLookup(MapLookup(map, source, specifier).resolvedUrl, source, specifier)

(***************************************************************************)
(* #urlToFakePath and joinUrl.                                             *)
(***************************************************************************)
\* the protocols #urlToFakePath accepts
CanFakePath(url) == Protocol(url) \in {"file:", "https:"}

\* #urlToFakePath, for a URL it does not throw on
urlToFakePath(url) ==
  IF Protocol(url) = "file:" THEN Pathname(url)
  ELSE "/https/" \o Host(url) \o Pathname(url)

\* joinUrl(url, path) with one path
joinUrl(url, path) ==
  NewUrl(path, IF EndsWith(url, "/") THEN url ELSE url \o "/")

(***************************************************************************)
(* The environment: the disk, the network and the host's options.          *)
(* A text is modelled by the references the transformer looks for in it    *)
(* and a body that stands for the rest of its characters.  leads[n] is the *)
(* number of characters (blanks, comments) between the token before the    *)
(* string literal of import n and the literal: 1 in import x from "a",     *)
(* 0 in import("a"), 2 in import x from  "a".                              *)
(***************************************************************************)
TextWithLeads(body, jsx, paths, libs, imports, leads) ==
  [body |-> body, jsx |-> jsx, paths |-> paths, libs |-> libs, imports |-> imports,
   leads |-> leads]

Text(body, jsx, paths, libs, imports) ==
  TextWithLeads(body, jsx, paths, libs, imports, [n \in 1..Len(imports) |-> 1])

\* the string ""
EmptyText == Text("", "", <<>>, <<>>, <<>>)

\* options.defaultLibDir of the host
DefaultLibDir == "https://deno.example/dts"

\* import.meta.url of the host module, the base of the bundled dts directory
ModuleUrl == "file:///src/VfsHost.ts"

\* Deno.readTextFile: the readable files
Disk ==
  [u \in {"file:///p/a.ts", "file:///p/b.ts", "file:///p/self.ts",
          "file:///p/c.ts", "file:///p/d.ts", "file:///p/shared.ts",
          "file:///p/e.ts", "file:///p/g.ts", "file:///p/f.tsx",
          "file:///p/types.d.ts", "file:///https/h.example/x.ts",
          "file:///src/dts/lib.esnext.d.ts.txt", "file:///p/h.tsx",
          "file:///p/t.ts", "file:///src/dts/lib.bad.d.ts.txt",
          "file:///p/k.ts", "file:///p/s.tsx"} |->
     CASE u = "file:///p/a.ts" -> Text("a", "", <<>>, <<>>, <<"./b.ts">>)
       [] u = "file:///p/b.ts" -> Text("b", "", <<>>, <<>>, <<"../p/a.ts">>)
       [] u = "file:///p/self.ts" -> Text("self", "", <<>>, <<>>, <<"./self.ts">>)
       [] u = "file:///p/c.ts" -> Text("c", "", <<>>, <<>>, <<"./shared.ts">>)
       [] u = "file:///p/d.ts" -> Text("d", "", <<>>, <<>>, <<"./shared.ts", "./shared.ts">>)
       [] u = "file:///p/e.ts" ->
            Text("e", "", <<>>, <<>>, <<"zod", "./missing.ts", "lodash", "ftp://h.example/k.ts">>)
       [] u = "file:///p/g.ts" ->
            Text("g", "", <<>>, <<>>,
                 <<"/https/h.example/x.ts", "https://h.example/x.ts?v=2">>)
       [] u = "file:///p/f.tsx" ->
            Text("f", "preact", <<"./types.d.ts">>, <<"dom">>, <<"npm:lodash">>)
       [] u = "file:///p/h.tsx" ->
            Text("h", "react", <<"./gone.d.ts">>, <<"gone">>, <<"./missing.d.ts", "./b.ts">>)
       [] u = "file:///p/t.ts" ->
            Text("t", "", <<>>, <<>>, <<"https://h.example/t.js", "npm:lodash">>)
       [] u = "file:///p/k.ts" ->
            TextWithLeads("k", "", <<>>, <<>>,
                          <<"./shared.ts", "./shared.ts", "./shared.ts">>, <<0, 1, 2>>)
       [] u = "file:///p/s.tsx" ->
            Text("s", "https://esm.example/solid", <<>>, <<>>, <<>>)
       [] u = "file:///https/h.example/x.ts" -> Text("x on disk", "", <<>>, <<>>, <<>>)
       [] u = "file:///src/dts/lib.esnext.d.ts.txt" ->
            Text("esnext", "", <<>>, <<"dom">>, <<>>)
       [] OTHER -> Text(u, "", <<>>, <<>>, <<>>)]

\* fetch: the responses of the network; url is resp.url, types the value of the
\* x-typescript-types header ("" when the header is absent)
Response(url, types, text) == [url |-> url, types |-> types, text |-> text]

Net ==
  [u \in {"https://esm.example/lodash", "https://esm.sh/lodash",
          "https://esm.example/preact/jsx-runtime",
          "https://esm.example/preact/jsx-runtime.d.ts",
          "https://h.example/x.ts", "https://h.example/x.ts?v=2",
          "https://deno.example/dts/lib.dom.d.ts",
          "https://h.example/t.js", "https://h.example/types/t",
          "https://deno.example/dts/lib.bad.d.ts",
          "https://esm.example/solid/jsx-runtime",
          "https://deno.example/dts/lib.dom.iterable.d.ts"} |->
     CASE u = "https://esm.example/preact/jsx-runtime" ->
            Response(u, "./jsx-runtime.d.ts", Text("preact js", "", <<>>, <<>>, <<>>))
       [] u = "https://deno.example/dts/lib.bad.d.ts" ->
            Response(u, "", TextWithLeads("bad", "", <<>>, <<>>, <<"./lib.dom.d.ts", "a">>, <<1, 0>>))
       [] u = "https://h.example/t.js" ->
            Response(u, "/types/t", Text("t js", "", <<>>, <<>>, <<>>))
       [] u = "https://h.example/x.ts?v=2" ->
            Response(u, "", Text("x v2", "", <<>>, <<>>, <<"./x.ts">>))
       [] OTHER -> Response(u, "", Text(u, "", <<>>, <<>>, <<>>))]

\* this.importMap of the host in a build
BuildImportMap ==
  [imports |-> <<[prefix |-> "lodash", replacement |-> "https://esm.example/lodash"],
                 [prefix |-> "preact/", replacement |-> "https://esm.example/preact/"]>>,
   scopes |-> <<>>]

\* what a build is started with: compilerOptions.lib, compilerOptions.jsxImportSource
\* ("" when not set) and the entry files
Build(lib, jsxImportSource, entryFiles) ==
  [lib |-> lib, jsxImportSource |-> jsxImportSource, entryFiles |-> entryFiles]

Builds ==
  { Build(<<>>, "", <<"file:///p/a.ts">>),
    Build(<<>>, "", <<"file:///p/self.ts">>),
    Build(<<>>, "", <<"file:///p/c.ts", "file:///p/d.ts">>),
    Build(<<>>, "", <<"file:///p/shared.ts", "file:///p/shared.ts">>),
    Build(<<>>, "", <<"file:///p/e.ts">>),
    Build(<<>>, "", <<"file:///p/g.ts">>),
    Build(<<>>, "", <<"file:///p/h.tsx">>),
    Build(<<>>, "", <<"file:///p/t.ts">>),
    Build(<<>>, "", <<"file:///p/k.ts">>),
    Build(<<>>, "", <<"file:///p/s.tsx">>),
    Build(<<"dom.iterable", "lib.dom">>, "", <<"file:///p/shared.ts">>),
    Build(<<"bad">>, "", <<"file:///p/shared.ts">>),
    Build(<<"nope">>, "", <<"file:///p/missing.ts", "file:///p/shared.ts">>),
    Build(<<"dom", "ESNext", "nope">>, "", <<"file:///p/f.tsx">>),
    Build(<<>>, "https://esm.example/preact", <<"file:///p/missing.ts", "file:///p/a.ts">>) }

(***************************************************************************)
(* State.                                                                  *)
(***************************************************************************)
VARIABLES
  importMap,   \* this.importMap
  build,       \* the options createDenoProgram runs with
  builder,     \* where createDenoProgram is
  store,       \* the entries of the Map the host extends: path -> text
  tasks,       \* the calls of loadFile in flight or settled, in call order
  cache,       \* the URLs whose response memoizedFetch holds
  origin,      \* history: path -> the URL whose load reserved the path
  writes,      \* history: path -> how often set() wrote the placeholder / the final text
  sourceUrl,   \* resolution alone: the importing file
  specifier,   \* resolution alone: the specifier
  resolved,    \* resolution alone: the outcome, once computed
  clock,       \* memoizedFetch alone: Date.now(), in milliseconds
  memo,        \* memoizedFetch alone: the entries of the durable cache, by URL
  calls,       \* memoizedFetch alone: the calls made, in call order
  lastRead     \* reads alone: the path read, what readFile and fileExists returned

\* the value of lastRead before any read
NoRead == [path |-> "", text |-> [undefined |-> TRUE], exists |-> FALSE]

\* what a build and a resolution leave alone
fetchVars == <<clock, memo, calls, lastRead>>

\* what the calls of memoizedFetch taken alone leave alone
buildVars ==
  <<importMap, build, builder, store, tasks, cache, origin, writes,
    sourceUrl, specifier, resolved, lastRead>>

vars ==
  <<importMap, build, builder, store, tasks, cache, origin, writes,
    sourceUrl, specifier, resolved, clock, memo, calls, lastRead>>

\* the most calls of loadFile one build of the model may make
MaxTasks == 12

(***************************************************************************)
(* The Map.                                                                *)
(***************************************************************************)
\* a has that never finds the key: every call reserves and transforms anew
HasNothing(map, key) == FALSE

\* Map.prototype.has
Has(map, key) == key \in DOMAIN map

\* Map.prototype.set
Put(map, key, value) ==
  [k \in DOMAIN map \cup {key} |-> IF k = key THEN value ELSE map[k]]

\* what createDenoProgram puts into the host before any load
PackageJsonPath == "/package.json"

PackageJsonText == Text("{ \"type\": \"module\" }", "", <<>>, <<>>, <<>>)

NoWrites == [placeholder |-> 0, final |-> 0]

WritesOf(w, path) == IF path \in DOMAIN w THEN w[path] ELSE NoWrites

(***************************************************************************)
(* One call of loadFile, with the caller that awaits it:                   *)
(*   op "entry"      createDenoProgram awaits it; a failure rejects        *)
(*   op "specifier"  #transformSpecifier awaits it and catches a failure   *)
(*   op "lib"        loadLibFile awaits it, retries with the bundled file  *)
(*                   (attempt 2) and catches the second failure            *)
(* parent is the index of the loadFile call whose transform made the call  *)
(* (0: createDenoProgram), phase and slot say for which reference.         *)
(***************************************************************************)
Task(op, parent, phase, slot, arg) ==
  [op |-> op, parent |-> parent, phase |-> phase, slot |-> slot, arg |-> arg,
   url |-> NullUrl, asUrl |-> NullUrl, attempt |-> 1, fetchUrl |-> NullUrl,
   pc |-> "new", realUrl |-> NullUrl, fakePath |-> "", text |-> EmptyText,
   at |-> 0, result |-> "", errs |-> <<>>, issued |-> <<>>]

Settled(t) == t.pc \in {"done", "failed"}

\* the synchronous part of #fetchFile: the URL it reads or requests, NullUrl
\* when it throws "Fetching ... URL is not supported"
FetchTarget(url) ==
  CASE Protocol(url) \in {"file:", "https:"} -> url
    [] Protocol(url) = "npm:" -> NewUrl(Pathname(url), "https://esm.sh/")
    [] Protocol(url) = "jsr:" -> NewUrl(Pathname(url), "https://esm.sh/jsr/")
    [] OTHER -> NullUrl

\* the disk reads and network requests a fetch of url starts: memoizedFetch
\* requests nothing for a URL it holds
Issued(url, cached) ==
  IF Protocol(url) = "file:" \/ url \notin cached THEN <<url>> ELSE <<>>

\* if (!fileName.startsWith("lib.")) fileName = `lib.${fileName}`
WithLibPrefix(fileName) ==
  IF StartsWith(fileName, "lib.") THEN fileName ELSE "lib." \o fileName

\* if (!fileName.endsWith(".d.ts")) fileName += ".d.ts"
WithDtsSuffix(fileName) ==
  IF EndsWith(fileName, ".d.ts") THEN fileName ELSE fileName \o ".d.ts"

\* loadLibFile: the file name of a library
LibFileName(libName) == WithDtsSuffix(WithLibPrefix(ToLowerCase(libName)))

\* loadLibFile: fileUrl and localFileUrl
LibFileUrl(libName) == joinUrl(DefaultLibDir, LibFileName(libName))

LocalLibUrl(libName) == NewUrl("dts/" \o LibFileName(libName) \o ".txt", ModuleUrl)

\* loadFile threw e; the failure goes to the caller: createDenoProgram lets it
\* reject, #transformSpecifier returns the specifier unchanged, loadLibFile
\* loads the bundled file as the primary URL and gives up after that
RECURSIVE StartLoad(_, _)
\* a failure that no caller catches: the call rejects whoever awaits it
RejectUncaught(t, e, cached) == [t EXCEPT !.pc = "failed", !.errs = Append(@, e)]

\* a failure that every caller catches: the call returns as if it had succeeded
RejectCaught(t, e, cached) == [t EXCEPT !.pc = "done", !.errs = Append(@, e)]

Reject(t, e, cached) ==
  CASE t.op = "entry" ->
         [t EXCEPT !.pc = "failed", !.errs = Append(@, e)]
    [] t.op = "specifier" ->
         [t EXCEPT !.pc = "done", !.errs = Append(@, e), !.result = t.arg]
    [] t.op = "lib" /\ t.attempt = 1 ->
         StartLoad([t EXCEPT !.attempt = 2, !.errs = Append(@, e),
                             !.url = LocalLibUrl(t.arg),
                             !.asUrl = LibFileUrl(t.arg)], cached)
    [] OTHER ->
         [t EXCEPT !.pc = "done", !.errs = Append(@, e)]

\* #fetchFile with the URL f it reads or requests: it throws, or the call is
\* suspended in the read or the request
Fetching(t, f, cached) ==
  IF f = NullUrl THEN Reject(t, "protocol", cached)
  ELSE [t EXCEPT !.pc = "fetch", !.fetchUrl = f, !.issued = @ \o Issued(f, cached)]

\* loadFile(t.url, t.asUrl) up to its first await
StartLoad(t, cached) == Fetching(t, FetchTarget(t.url), cached)

\* loadLibFile(libName) up to its first await
StartLib(t, cached) == StartLoad([t EXCEPT !.url = LibFileUrl(t.arg)], cached)

\* #transformSpecifier(source, t.arg) up to its first await, r the outcome of
\* the resolution
LoadResolved(t, r, cached) ==
  IF r.ok THEN StartLoad([t EXCEPT !.url = r.url], cached)
  ELSE Reject(t, "bare", cached)

StartSpecifier(t, map, source, cached) ==
  LoadResolved(t, resolveSpecifier(map, source, t.arg), cached)

(***************************************************************************)
(* #transformSourceFile: four groups of references, each awaited before    *)
(* the next is looked at: 1 the @jsxImportSource pragma, 2 the path        *)
(* references, 3 the lib references, 4 the import/export declarations and  *)
(* dynamic imports.                                                        *)
(***************************************************************************)
LastPhase == 4

Items(text, k) ==
  CASE k = 1 -> IF text.jsx = "" THEN <<>> ELSE <<text.jsx \o "/jsx-runtime">>
    [] k = 2 -> text.paths
    [] k = 3 -> text.libs
    [] OTHER -> text.imports

\* the next group after k that has a reference, LastPhase + 1 when none has
RECURSIVE NextPhase(_, _)
NextPhase(text, k) ==
  IF k >= LastPhase THEN LastPhase + 1
  ELSE IF Items(text, k + 1) # <<>> THEN k + 1
  ELSE NextPhase(text, k + 1)

\* a transform that makes the call for the first reference of a group only
ChildrenFirstOnly(i, map, realUrl, text, k, cached) ==
  IF k > LastPhase \/ Items(text, k) = <<>> THEN <<>>
  ELSE <<IF k = 3
         THEN StartLib(Task("lib", i, k, 1, Items(text, k)[1]), cached)
         ELSE StartSpecifier(Task("specifier", i, k, 1, Items(text, k)[1]),
                             map, realUrl, cached)>>

\* the calls the transform of task i makes for group k, each up to its first await
Children(i, map, realUrl, text, k, cached) ==
  IF k > LastPhase THEN <<>>
  ELSE [n \in 1..Len(Items(text, k)) |->
          IF k = 3
          THEN StartLib(Task("lib", i, k, n, Items(text, k)[n]), cached)
          ELSE StartSpecifier(Task("specifier", i, k, n, Items(text, k)[n]),
                              map, realUrl, cached)]

\* toFakeJs
toFakeJs(spec) ==
  IF EndsWith(spec, ".d.ts") THEN SubSeq(spec, 1, Len(spec) - 5) \o ".js" ELSE spec

\* what the call for reference n of group k of task i returned
ChildResult(ts, i, k, n) ==
  LET j == CHOOSE j \in 1..Len(ts) :
             ts[j].parent = i /\ ts[j].phase = k /\ ts[j].slot = n
  IN  ts[j].result

\* lead blanks
RECURSIVE Blanks(_)
Blanks(lead) == IF lead = 0 THEN "" ELSE " " \o Blanks(lead - 1)

\* the characters from specifier.getFullStart() to specifier.getEnd(): the
\* blanks before the string literal and the literal with its quotes
Literal(lead, spec) == Blanks(lead) \o "\"" \o spec \o "\""

\* text.overwrite(specifier.getFullStart() + 2, specifier.getEnd() - 1, content):
\* what the characters of the literal have become
Overwritten(lead, spec, content) ==
  SubSeq(Literal(lead, spec), 1, 2) \o content
    \o Slice(Literal(lead, spec), Len(Literal(lead, spec)) - 1)

\* the specifier a reader of the characters s finds: what stands between the
\* first quote and the next one; s itself when s holds no such pair
Quoted(s) ==
  IF /\ IndexFrom(s, "\"", 1) > 0
     /\ IndexFrom(s, "\"", IndexFrom(s, "\"", 1) + 1) > 0
  THEN SubSeq(s, IndexFrom(s, "\"", 1) + 1,
              IndexFrom(s, "\"", IndexFrom(s, "\"", 1) + 1) - 1)
  ELSE s

\* text.toString() after every overwrite
Rewrite(ts, i) ==
  LET text == ts[i].text
  IN  TextWithLeads(text.body,
           IF text.jsx = "" THEN "" ELSE ChildResult(ts, i, 1, 1),
           [n \in 1..Len(text.paths) |-> ChildResult(ts, i, 2, n)],
           text.libs,
           [n \in 1..Len(text.imports) |->
              Quoted(Overwritten(text.leads[n], text.imports[n],
                                 toFakeJs(ChildResult(ts, i, 4, n))))],
           text.leads)

\* text.overwrite(specifier.getFullStart() + 2, specifier.getEnd() - 1, ...) for
\* the literal of a specifier with lead characters before it: counted from the
\* opening quote the range is [2 - lead, Len(spec) + 1), and overwrite throws
\* when the range is empty
OverwriteThrows(lead, spec) == 2 - lead = Len(spec) + 1

\* the calls made for the imports of task i that have settled and whose
\* overwrite throws
Throwers(ts, i) ==
  {j \in 1..Len(ts) : /\ ts[j].parent = i
                      /\ ts[j].phase = LastPhase
                      /\ Settled(ts[j])
                      /\ ts[j].slot \in DOMAIN ts[i].text.leads
                      /\ OverwriteThrows(ts[i].text.leads[ts[j].slot], ts[j].arg)}

\* a transform that waits for none of the calls it made
GroupSettledAlways(ts, i, k) == TRUE

\* every call made for group k of task i has settled
GroupSettled(ts, i, k) ==
  \A j \in 1..Len(ts) : ts[j].parent = i /\ ts[j].phase = k => Settled(ts[j])

(***************************************************************************)
(* loadFile after #fetchFile returned {text, url: realUrl}: everything up  *)
(* to the await of #transformSourceFile, which runs without suspension.    *)
(***************************************************************************)
\* the task when loadFile returns fakePath
Fulfil(t, realUrl, fakePath) ==
  [t EXCEPT !.pc = "done", !.realUrl = realUrl, !.fakePath = fakePath,
            !.result = fakePath]

\* the task when loadFile has reserved fakePath and awaits the transform
Reserve(t, realUrl, fakePath, text) ==
  [t EXCEPT !.pc = "transform", !.realUrl = realUrl, !.fakePath = fakePath,
            !.text = text, !.at = NextPhase(text, 0)]

\* asUrl ?? realUrl
PathSource(t, realUrl) == IF t.asUrl # NullUrl THEN t.asUrl ELSE realUrl

\* const fakePath = this.#urlToFakePath(asUrl ?? realUrl)
FakePathOf(t, realUrl) == urlToFakePath(PathSource(t, realUrl))

AfterFetch(i, realUrl, text) ==
  \E fakePath \in {FakePathOf(tasks[i], realUrl)} :
    IF ~CanFakePath(PathSource(tasks[i], realUrl))
    THEN /\ tasks' = [tasks EXCEPT ![i] = Reject(tasks[i], "path", cache')]
         /\ UNCHANGED <<store, origin, writes>>
    ELSE IF Has(store, fakePath)
    THEN /\ tasks' = [tasks EXCEPT ![i] = Fulfil(tasks[i], realUrl, fakePath)]
         /\ UNCHANGED <<store, origin, writes>>
    ELSE \E children \in
              {Children(i, importMap, realUrl, text, NextPhase(text, 0), cache')} :
           /\ Len(tasks) + Len(children) <= MaxTasks
           /\ store' = Put(store, fakePath, EmptyText)
           /\ origin' = Put(origin, fakePath, realUrl)
           /\ writes' = Put(writes, fakePath,
                           [WritesOf(writes, fakePath) EXCEPT !.placeholder = @ + 1])
           /\ tasks' = [tasks EXCEPT ![i] = Reserve(tasks[i], realUrl, fakePath, text)]
                         \o children

(***************************************************************************)
(* Completions of the awaited reads and requests.                          *)
(***************************************************************************)
\* Deno.readTextFile resolved
ReadDone(i) ==
  /\ UNCHANGED fetchVars
  /\ i \in 1..Len(tasks)
  /\ tasks[i].pc = "fetch"
  /\ Protocol(tasks[i].fetchUrl) = "file:"
  /\ tasks[i].fetchUrl \in DOMAIN Disk
  /\ cache' = cache
  /\ AfterFetch(i, tasks[i].url, Disk[tasks[i].fetchUrl])
  /\ UNCHANGED <<importMap, build, builder, sourceUrl, specifier, resolved>>

\* the endings /\.[cm]?[tj]sx?$/ matches
ScriptExtensions ==
  {"." \o m \o l \o "s" \o x : m \in {"", "c", "m"}, l \in {"t", "j"}, x \in {"", "x"}}

\* let respUrl = resp.url; if (!/\.[cm]?[tj]sx?$/.test(respUrl)) respUrl += ".ts"
\* the value of respUrl, which the return statement after it does not use
GuessedRespUrl(url) ==
  IF \E e \in ScriptExtensions : EndsWith(url, e) THEN url ELSE url \o ".ts"

\* memoizedFetch(url) resolved, the response has no x-typescript-types header:
\* return { text: resp.text, url: new URL(resp.url) }
FetchDone(i) ==
  /\ UNCHANGED fetchVars
  /\ i \in 1..Len(tasks)
  /\ tasks[i].pc = "fetch"
  /\ Protocol(tasks[i].fetchUrl) = "https:"
  /\ tasks[i].fetchUrl \in DOMAIN Net
  /\ Net[tasks[i].fetchUrl].types = ""
  /\ cache' = cache \cup {tasks[i].fetchUrl}
  /\ AfterFetch(i, ParseUrl(Net[tasks[i].fetchUrl].url), Net[tasks[i].fetchUrl].text)
  /\ UNCHANGED <<importMap, build, builder, sourceUrl, specifier, resolved>>

\* memoizedFetch(url) resolved, the response names its types: they are requested
FetchTypes(i) ==
  /\ UNCHANGED fetchVars
  /\ i \in 1..Len(tasks)
  /\ tasks[i].pc = "fetch"
  /\ Protocol(tasks[i].fetchUrl) = "https:"
  /\ tasks[i].fetchUrl \in DOMAIN Net
  /\ Net[tasks[i].fetchUrl].types # ""
  /\ cache' = cache \cup {tasks[i].fetchUrl}
  /\ \E typesUrl \in {NewUrl(Net[tasks[i].fetchUrl].types, Net[tasks[i].fetchUrl].url)} :
       tasks' = [tasks EXCEPT ![i].pc = "fetchTypes",
                              ![i].fetchUrl = typesUrl,
                              ![i].issued = @ \o Issued(typesUrl, cache')]
  /\ UNCHANGED <<importMap, build, builder, store, origin, writes,
                 sourceUrl, specifier, resolved>>

\* a types URL taken as the response gives it
TypesRespUrlAsIs(url) == url

\* if (!typesRespUrl.endsWith(".d.ts")) typesRespUrl += ".d.ts"
TypesRespUrl(url) == IF EndsWith(url, ".d.ts") THEN url ELSE url \o ".d.ts"

\* memoizedFetch(typesUrl) resolved
TypesDone(i) ==
  /\ UNCHANGED fetchVars
  /\ i \in 1..Len(tasks)
  /\ tasks[i].pc = "fetchTypes"
  /\ tasks[i].fetchUrl \in DOMAIN Net
  /\ cache' = cache \cup {tasks[i].fetchUrl}
  /\ AfterFetch(i, ParseUrl(TypesRespUrl(Net[tasks[i].fetchUrl].url)),
                Net[tasks[i].fetchUrl].text)
  /\ UNCHANGED <<importMap, build, builder, sourceUrl, specifier, resolved>>

\* a loadFile that reserved the path of its URL before fetching, and fails
FetchFailedReserved(i) ==
  /\ UNCHANGED fetchVars
  /\ i \in 1..Len(tasks)
  /\ tasks[i].pc \in {"fetch", "fetchTypes"}
  /\ tasks[i].fetchUrl \notin (DOMAIN Disk \cup DOMAIN Net)
  /\ tasks' = [tasks EXCEPT ![i] = Reject(tasks[i], "fetch", cache)]
  /\ store' = Put(store, urlToFakePath(tasks[i].url), EmptyText)
  /\ UNCHANGED <<importMap, build, builder, cache, origin, writes,
                 sourceUrl, specifier, resolved>>

\* the read or the request failed: #fetchFile throws, and so does loadFile
FetchFailed(i) ==
  /\ UNCHANGED fetchVars
  /\ i \in 1..Len(tasks)
  /\ tasks[i].pc \in {"fetch", "fetchTypes"}
  /\ tasks[i].fetchUrl \notin (DOMAIN Disk \cup DOMAIN Net)
  /\ tasks' = [tasks EXCEPT ![i] = Reject(tasks[i], "fetch", cache)]
  /\ UNCHANGED <<importMap, build, builder, store, cache, origin, writes,
                 sourceUrl, specifier, resolved>>

(***************************************************************************)
(* #transformSourceFile going on after the calls of one group settled.     *)
(***************************************************************************)
\* the next group of references is resolved and loaded
ContinueTransform(i) ==
  /\ UNCHANGED fetchVars
  /\ i \in 1..Len(tasks)
  /\ tasks[i].pc = "transform"
  /\ GroupSettled(tasks, i, tasks[i].at)
  /\ tasks[i].at <= LastPhase
  /\ \E k \in {NextPhase(tasks[i].text, tasks[i].at)} :
       /\ k <= LastPhase
       /\ \E children \in
              {Children(i, importMap, tasks[i].realUrl, tasks[i].text, k, cache)} :
            /\ Len(tasks) + Len(children) <= MaxTasks
            /\ tasks' = [tasks EXCEPT ![i].at = k] \o children
  /\ UNCHANGED <<importMap, build, builder, store, cache, origin, writes,
                 sourceUrl, specifier, resolved>>

\* the transform returns; loadFile stores the text and returns the path
FinishTransform(i) ==
  /\ UNCHANGED fetchVars
  /\ i \in 1..Len(tasks)
  /\ tasks[i].pc = "transform"
  /\ GroupSettled(tasks, i, tasks[i].at)
  /\ NextPhase(tasks[i].text, tasks[i].at) > LastPhase
  /\ Throwers(tasks, i) = {}
  /\ store' = Put(store, tasks[i].fakePath, Rewrite(tasks, i))
  /\ writes' = Put(writes, tasks[i].fakePath,
                   [WritesOf(writes, tasks[i].fakePath) EXCEPT !.final = @ + 1])
  /\ tasks' = [tasks EXCEPT ![i].pc = "done", ![i].result = tasks[i].fakePath]
  /\ UNCHANGED <<importMap, build, builder, cache, origin,
                 sourceUrl, specifier, resolved>>

\* an overwrite throws: the transform throws "Transforming file ... failed",
\* loadFile rethrows, and the placeholder stays; the calls made for the other
\* imports go on
TransformThrows(i) ==
  /\ UNCHANGED fetchVars
  /\ i \in 1..Len(tasks)
  /\ tasks[i].pc = "transform"
  /\ tasks[i].at = LastPhase
  /\ Throwers(tasks, i) # {}
  /\ tasks' = [tasks EXCEPT ![i] = Reject(tasks[i], "transform", cache)]
  /\ UNCHANGED <<importMap, build, builder, store, cache, origin, writes,
                 sourceUrl, specifier, resolved>>

(***************************************************************************)
(* createDenoProgram, from the loading of the lib files on.                *)
(***************************************************************************)
\* the calls createDenoProgram makes in one of its three steps
BuilderCalls(k) == {j \in 1..Len(tasks) : tasks[j].parent = 0 /\ tasks[j].phase = k}

\* await Promise.all(lib.map((libName) => host.loadLibFile(libName)))
LoadLibs ==
  /\ UNCHANGED fetchVars
  /\ builder = "init"
  /\ builder' = "libs"
  /\ tasks' = tasks \o [n \in 1..Len(build.lib) |->
                          StartLib(Task("lib", 0, 1, n, build.lib[n]), cache)]
  /\ UNCHANGED <<importMap, build, store, cache, origin, writes,
                 sourceUrl, specifier, resolved>>

\* jsxImportSource = await host.loadFile(new URL(`${jsxImportSource}/jsx-runtime`))
LoadJsxImportSource ==
  /\ UNCHANGED fetchVars
  /\ builder = "libs"
  /\ \A j \in BuilderCalls(1) : Settled(tasks[j])
  /\ build.jsxImportSource # ""
  /\ builder' = "jsx"
  /\ tasks' = Append(tasks,
       StartLoad([Task("entry", 0, 2, 1, build.jsxImportSource \o "/jsx-runtime")
                    EXCEPT !.url = build.jsxImportSource \o "/jsx-runtime"], cache))
  /\ UNCHANGED <<importMap, build, store, cache, origin, writes,
                 sourceUrl, specifier, resolved>>

\* await Promise.all(entryFiles.map((url) => host.loadFile(url)))
LoadEntries ==
  /\ UNCHANGED fetchVars
  /\ \/ /\ builder = "libs"
        /\ \A j \in BuilderCalls(1) : Settled(tasks[j])
        /\ build.jsxImportSource = ""
     \/ /\ builder = "jsx"
        /\ \A j \in BuilderCalls(2) : tasks[j].pc = "done"
  /\ builder' = "entries"
  /\ tasks' = tasks \o [n \in 1..Len(build.entryFiles) |->
                          StartLoad([Task("entry", 0, 3, n, build.entryFiles[n])
                                       EXCEPT !.url = build.entryFiles[n]], cache)]
  /\ UNCHANGED <<importMap, build, store, cache, origin, writes,
                 sourceUrl, specifier, resolved>>

\* ts.createProgram({rootNames, options, host})
CreateProgram ==
  /\ UNCHANGED fetchVars
  /\ builder = "entries"
  /\ \A j \in BuilderCalls(3) : tasks[j].pc = "done"
  /\ builder' = "program"
  /\ UNCHANGED <<importMap, build, store, tasks, cache, origin, writes,
                 sourceUrl, specifier, resolved>>

\* an awaited loadFile rejected: createDenoProgram rejects
Abort ==
  /\ UNCHANGED fetchVars
  /\ builder \in {"jsx", "entries"}
  /\ \E j \in BuilderCalls(2) \cup BuilderCalls(3) : tasks[j].pc = "failed"
  /\ builder' = "aborted"
  /\ UNCHANGED <<importMap, build, store, tasks, cache, origin, writes,
                 sourceUrl, specifier, resolved>>

(***************************************************************************)
(* A build.                                                                *)
(***************************************************************************)
Init ==
  /\ importMap = BuildImportMap
  /\ build \in Builds
  /\ builder = "init"
  /\ store = [p \in {PackageJsonPath} |-> PackageJsonText]
  /\ tasks = <<>>
  /\ cache = {}
  /\ origin = <<>>
  /\ writes = [p \in {PackageJsonPath} |-> [placeholder |-> 0, final |-> 1]]
  /\ sourceUrl = ""
  /\ specifier = ""
  /\ resolved = [ok |-> FALSE, url |-> NullUrl]
  /\ clock = 0
  /\ memo = <<>>
  /\ calls = <<>>
  /\ lastRead = NoRead

Next ==
  \/ LoadLibs
  \/ LoadJsxImportSource
  \/ LoadEntries
  \/ CreateProgram
  \/ Abort
  \/ \E i \in 1..MaxTasks : ReadDone(i)
  \/ \E i \in 1..MaxTasks : FetchDone(i)
  \/ \E i \in 1..MaxTasks : FetchTypes(i)
  \/ \E i \in 1..MaxTasks : TypesDone(i)
  \/ \E i \in 1..MaxTasks : FetchFailed(i)
  \/ \E i \in 1..MaxTasks : ContinueTransform(i)
  \/ \E i \in 1..MaxTasks : FinishTransform(i)
  \/ \E i \in 1..MaxTasks : TransformThrows(i)

Spec == Init /\ [][Next]_vars

(***************************************************************************)
(* Resolution alone: one call of the import-map part of                    *)
(* #transformSpecifier on an import map, a source URL and a specifier      *)
(* drawn from bounded sets, with the entries in every order.               *)
(***************************************************************************)
\* the most entries of importMap.imports
MaxImports == 2

\* the most entries of one scope
MaxMappings == 2

\* the most scopes
MaxScopes == 2

Prefixes == {"a/", "a/b/", "a/b/c"}

ScopeUrls == {"https://cdn.example/", "https://cdn.example/x/"}

Specifiers ==
  {"a/b/c", "a/b/", "a/x", "a/../c", "zod", "./x.ts", "/y.ts", "https://h.example/z.ts"}

SourceUrls == {"https://cdn.example/x/m.ts", "https://cdn.example/m.ts", "file:///p/m.ts"}

\* an entry for prefix whose replacement tells where it is listed (base) and
\* for which prefix
EntryOf(base, prefix) ==
  [prefix |-> prefix,
   replacement |-> base \o (CASE prefix = "a/" -> "A/"
                              [] prefix = "a/b/" -> "B/"
                              [] OTHER -> "C")]

BaseOf(scope) ==
  IF scope = "" THEN "https://top.example/"
  ELSE IF scope = "https://cdn.example/" THEN "https://s1.example/"
  ELSE "https://s2.example/"

\* the sequences of at most n distinct elements of S
DistinctSeqs(S, n) ==
  {q \in UNION {[1..k -> S] : k \in 0..n} :
     \A i, j \in DOMAIN q : i # j => q[i] # q[j]}

EntriesOf(scope, prefixes) ==
  [i \in DOMAIN prefixes |-> EntryOf(BaseOf(scope), prefixes[i])]

ImportMaps ==
  {[imports |-> EntriesOf("", top),
    scopes |-> [i \in DOMAIN ss |->
                  [scope |-> ss[i], mappings |-> EntriesOf(ss[i], m[ss[i]])]]] :
     top \in DistinctSeqs(Prefixes, MaxImports),
     ss \in DistinctSeqs(ScopeUrls, MaxScopes),
     m \in [ScopeUrls -> DistinctSeqs(Prefixes, MaxMappings)]}

InitResolve ==
  /\ importMap \in ImportMaps
  /\ sourceUrl \in SourceUrls
  /\ specifier \in Specifiers
  /\ resolved = [ok |-> FALSE, url |-> NullUrl]
  /\ builder = "resolve"
  /\ build = Build(<<>>, "", <<>>)
  /\ store = <<>>
  /\ tasks = <<>>
  /\ cache = {}
  /\ origin = <<>>
  /\ writes = <<>>
  /\ clock = 0
  /\ memo = <<>>
  /\ calls = <<>>
  /\ lastRead = NoRead

\* the import-map part of #transformSpecifier(sourceUrl, specifier)
Resolve ==
  /\ UNCHANGED fetchVars
  /\ builder = "resolve"
  /\ resolved' = resolveSpecifier(importMap, sourceUrl, specifier)
  /\ builder' = "resolved"
  /\ UNCHANGED <<importMap, build, store, tasks, cache, origin, writes,
                 sourceUrl, specifier>>

NextResolve == Resolve

SpecResolve == InitResolve /\ [][NextResolve]_vars

(***************************************************************************)
(* memoizedFetch taken alone: calls on URLs over time.  The fetcher and    *)
(* shouldRecalculate are the repository's; memoizeAsync, which joins them  *)
(* to the cache, is the library's: an entry found is returned unless       *)
(* shouldRecalculate says otherwise, and what the fetcher returns is       *)
(* stored under the URL.                                                   *)
(***************************************************************************)
\* 1000 * 60 * 60 * 24, one day in milliseconds
FreshnessWindow == 1000 * 60 * 60 * 24

\* a comparison that takes an entry of exactly one day for stale
shouldRecalculateAtWindow(date, now) == now - date >= FreshnessWindow

\* shouldRecalculate(response) at the time now, date being response.date
shouldRecalculate(date, now) == now - date > FreshnessWindow

\* the most calls of memoizedFetch and the most advances of the clock
MaxCalls == 3

MaxTicks == 2

\* the URLs asked for: one that answers and one that does not
FetchUrls == {"https://h.example/x.ts", "https://h.example/gone.ts"}

\* by how much the clock advances in one step
Durations == {1, FreshnessWindow}

\* how many advances brought the clock to c
Ticks(c) == (c \div FreshnessWindow) + (c % FreshnessWindow)

\* what the fetcher returns: the response and date: new Date()
Entry(value, date) == [value |-> value, date |-> date]

\* the age of the entry of url at the time now, -1 when there is none
AgeOf(entries, url, now) ==
  IF Has(entries, url) THEN now - entries[url].date ELSE -1

\* memoizedFetch(url) is called: the value held is returned, or the fetcher
\* is run and its fetch(url) awaited
CallFetch(url) ==
  /\ Len(calls) < MaxCalls
  /\ calls' = Append(calls,
       IF Has(memo, url) /\ ~shouldRecalculate(memo[url].date, clock)
       THEN [url |-> url, pc |-> "done", requests |-> 0, value |-> memo[url].value,
             age |-> AgeOf(memo, url, clock), calledAt |-> clock, doneAt |-> clock]
       ELSE [url |-> url, pc |-> "fetch", requests |-> 1, value |-> Response("", "", EmptyText),
             age |-> AgeOf(memo, url, clock), calledAt |-> clock, doneAt |-> -1])
  /\ UNCHANGED <<clock, memo>>
  /\ UNCHANGED buildVars

\* fetch(url) answered: the fetcher returns and the value is stored
FetchResponded(i) ==
  /\ i \in 1..Len(calls)
  /\ calls[i].pc = "fetch"
  /\ calls[i].url \in DOMAIN Net
  /\ memo' = Put(memo, calls[i].url, Entry(Net[calls[i].url], clock))
  /\ calls' = [calls EXCEPT ![i].pc = "done", ![i].value = Net[calls[i].url],
                            ![i].doneAt = clock]
  /\ UNCHANGED clock
  /\ UNCHANGED buildVars

\* fetch(url) failed or the response is not ok: the fetcher throws
FetchThrew(i) ==
  /\ i \in 1..Len(calls)
  /\ calls[i].pc = "fetch"
  /\ calls[i].url \notin DOMAIN Net
  /\ calls' = [calls EXCEPT ![i].pc = "failed", ![i].doneAt = clock]
  /\ UNCHANGED <<clock, memo>>
  /\ UNCHANGED buildVars

\* time passes
Tick(d) ==
  /\ Ticks(clock) < MaxTicks
  /\ clock' = clock + d
  /\ UNCHANGED <<memo, calls>>
  /\ UNCHANGED buildVars

InitFetch ==
  /\ importMap = BuildImportMap
  /\ build = Build(<<>>, "", <<>>)
  /\ builder = "fetch"
  /\ store = <<>>
  /\ tasks = <<>>
  /\ cache = {}
  /\ origin = <<>>
  /\ writes = <<>>
  /\ sourceUrl = ""
  /\ specifier = ""
  /\ resolved = [ok |-> FALSE, url |-> NullUrl]
  /\ clock = 0
  /\ memo = <<>>
  /\ calls = <<>>
  /\ lastRead = NoRead

NextFetch ==
  \/ \E url \in FetchUrls : CallFetch(url)
  \/ \E i \in 1..Len(calls) : FetchResponded(i)
  \/ \E i \in 1..Len(calls) : FetchThrew(i)
  \/ \E d \in Durations : Tick(d)

SpecFetch == InitFetch /\ [][NextFetch]_vars

(***************************************************************************)
(* readFile and fileExists taken alone: the compiler reads a path from a   *)
(* host whose store the loads have filled.                                 *)
(***************************************************************************)
\* the result of a function that returns nothing
Undefined == [undefined |-> TRUE]

\* getDefaultLibLocation()
DefaultLibLocation == urlToFakePath(DefaultLibDir)

\* parse(path) of @std/path: the path without its trailing slashes, the index
\* of its last slash, and with them base, dir, ext and name
RECURSIVE Trimmed(_)
Trimmed(path) ==
  IF Len(path) > 1 /\ EndsWith(path, "/")
  THEN Trimmed(SubSeq(path, 1, Len(path) - 1))
  ELSE path

LastSlash(path) == LastIndexFrom(Trimmed(path), "/", Len(Trimmed(path)))

ParseBase(path) == Slice(Trimmed(path), LastSlash(path))

ParseDir(path) ==
  IF LastSlash(path) = 0 THEN ""
  ELSE IF LastSlash(path) = 1 THEN "/"
  ELSE SubSeq(path, 1, LastSlash(path) - 1)

ParseExt(path) ==
  IF LastIndexFrom(ParseBase(path), ".", Len(ParseBase(path))) <= 1 THEN ""
  ELSE Slice(ParseBase(path),
             LastIndexFrom(ParseBase(path), ".", Len(ParseBase(path))) - 1)

ParseName(path) ==
  SubSeq(ParseBase(path), 1, Len(ParseBase(path)) - Len(ParseExt(path)))

\* if (foundName.endsWith("/jsx-runtime")) foundName = foundName.slice(0, -11)
WithoutJsxRuntime(fileName) ==
  IF EndsWith(fileName, "/jsx-runtime")
  THEN SubSeq(fileName, 1, Len(fileName) - 11)
  ELSE fileName

\* if (!name.endsWith(".d")) name += ".d"
WithDSuffix(name) == IF EndsWith(name, ".d") THEN name ELSE name \o ".d"

\* the rewritten name of a lib file; ext is ".ts" whatever it was
LibFoundName(foundName) ==
  IF StartsWith(foundName, DefaultLibLocation)
  THEN ParseDir(foundName) \o "/"
         \o WithDSuffix(WithLibPrefix(ToLowerCase(ParseName(foundName)))) \o ".ts"
  ELSE foundName

\* foundName of readFile when it looks into the Map
FoundName(fileName) == LibFoundName(WithoutJsxRuntime(fileName))

\* the text readFile returns for a name that it changed
RedirectStub(foundName) ==
  Text("/// <reference no-default-lib=\"true\" />", "", <<foundName>>, <<>>, <<>>)

\* a readFile that hands out the text found under the changed name
readFileAsFound(map, fileName) ==
  IF ~Has(map, FoundName(fileName)) THEN Undefined ELSE map[FoundName(fileName)]

\* readFile(fileName)
readFile(map, fileName) ==
  IF ~Has(map, FoundName(fileName)) THEN Undefined
  ELSE IF FoundName(fileName) = fileName THEN map[FoundName(fileName)]
  ELSE RedirectStub(FoundName(fileName))

\* fileExists(fileName)
fileExists(map, fileName) == readFile(map, fileName) # Undefined

\* the keys the loads may have put into the store, each reserved only or
\* holding its text
ReadKeys ==
  {"/p/a.ts", "/https/esm.example/preact", "/https/esm.example/preact/",
   "/https/esm.example/preact/jsx-runtime",
   "/https/deno.example/dts/lib.dom.d.ts",
   "/https/deno.example/dts/lib.dom.iterable.d.ts"}

ReadStores ==
  UNION {[keys -> {EmptyText, Text("text", "", <<>>, <<>>, <<>>)}] :
           keys \in SUBSET ReadKeys}

\* the paths the compiler asks for
ReadPaths ==
  ReadKeys \cup
  {"/p/none.ts", "/p/a.ts/jsx-runtime",
   "/https/deno.example/dts/dom", "/https/deno.example/dts/DOM.d.ts",
   "/https/deno.example/dts/lib.dom", "/https/deno.example/dts/dom.iterable",
   "/https/deno.example/dts/lib.dom.d.mts"}

InitRead ==
  /\ importMap = BuildImportMap
  /\ build = Build(<<>>, "", <<>>)
  /\ builder = "read"
  /\ store \in ReadStores
  /\ tasks = <<>>
  /\ cache = {}
  /\ origin = <<>>
  /\ writes = <<>>
  /\ sourceUrl = ""
  /\ specifier = ""
  /\ resolved = [ok |-> FALSE, url |-> NullUrl]
  /\ clock = 0
  /\ memo = <<>>
  /\ calls = <<>>
  /\ lastRead = NoRead

\* the compiler calls fileExists and readFile for a path
HostRead(path) ==
  /\ builder = "read"
  /\ builder' = "readDone"
  /\ lastRead' = [path |-> path, text |-> readFile(store, path),
                  exists |-> fileExists(store, path)]
  /\ UNCHANGED <<importMap, build, store, tasks, cache, origin, writes,
                 sourceUrl, specifier, resolved, clock, memo, calls>>

NextRead == \E path \in ReadPaths : HostRead(path)

SpecRead == InitRead /\ [][NextRead]_vars

(***************************************************************************)
(* Properties of a build.                                                  *)
(***************************************************************************)
TaskIds == 1..Len(tasks)

\* createDenoProgram has returned or thrown and no call is pending
Quiescent ==
  /\ builder \in {"program", "aborted"}
  /\ \A j \in TaskIds : Settled(tasks[j])

\* the files a file on disk imports
DepsOf(u) ==
  IF u \in DOMAIN Disk
  THEN {resolveSpecifier(importMap, u, Disk[u].imports[n]).url :
          n \in DOMAIN Disk[u].imports} \ {NullUrl}
  ELSE {}

RECURSIVE ReachFrom(_, _)
ReachFrom(frontier, seen) ==
  IF frontier \subseteq seen THEN seen
  ELSE ReachFrom(UNION {DepsOf(u) : u \in frontier \ seen}, seen \cup frontier)

\* u imports itself, directly or through other files
InCycle(u) == u \in ReachFrom(DepsOf(u), {})

\* the paths whose reservation was made by the load of url
KeysOf(url) == {p \in DOMAIN store : p \in DOMAIN origin /\ origin[p] = url}

\* the calls of loadFile that reserved path and entered #transformSourceFile
Transformers(path) == {j \in TaskIds : tasks[j].fakePath = path /\ tasks[j].at > 0}

\* the calls the transform of call j made
CallsOf(j) == {k \in TaskIds : tasks[k].parent = j}

\* a step of call j is possible: its read or request has completed or failed,
\* or the calls of the group its transform waits for have settled (the cap of
\* the model on the number of calls left aside, it is what the guards of
\* ReadDone .. FinishTransform ask for)
CanStep(j) ==
  LET t == tasks[j]
      resp == Net[t.fetchUrl]
      got == CASE Protocol(t.fetchUrl) = "file:" ->
                    [realUrl |-> t.url, text |-> Disk[t.fetchUrl]]
               [] t.pc = "fetch" ->
                    [realUrl |-> resp.url, text |-> resp.text]
               [] OTHER ->
                    [realUrl |-> IF EndsWith(resp.url, ".d.ts") THEN resp.url
                                 ELSE resp.url \o ".d.ts",
                     text |-> resp.text]
      room(text, k) ==
        Len(tasks) + (IF k > LastPhase THEN 0 ELSE Len(Items(text, k))) <= MaxTasks
  IN  \/ /\ t.pc \in {"fetch", "fetchTypes"}
         /\ \/ t.fetchUrl \notin (DOMAIN Disk \cup DOMAIN Net)
            \/ t.pc = "fetch" /\ Protocol(t.fetchUrl) = "https:" /\ resp.types # ""
            \/ ~CanFakePath(IF t.asUrl # NullUrl THEN t.asUrl ELSE got.realUrl)
            \/ Has(store, FakePathOf(t, got.realUrl))
            \/ room(got.text, NextPhase(got.text, 0))
      \/ /\ t.pc = "transform"
         /\ GroupSettled(tasks, j, t.at)
         /\ room(t.text, NextPhase(t.text, t.at))
      \/ /\ t.pc = "transform"
         /\ t.at = LastPhase
         /\ Throwers(tasks, j) # {}

\* a step of createDenoProgram is possible
BuilderCanStep ==
  \/ builder = "init"
  \/ builder = "libs" /\ \A j \in BuilderCalls(1) : Settled(tasks[j])
  \/ builder = "jsx" /\ \A j \in BuilderCalls(2) : Settled(tasks[j])
  \/ builder = "entries" /\ \A j \in BuilderCalls(3) : tasks[j].pc = "done"
  \/ builder = "entries" /\ \E j \in BuilderCalls(3) : tasks[j].pc = "failed"

\* how far a build has come: every step of a build raises it
PcRank(pc) ==
  CASE pc = "new" -> 0 [] pc = "fetch" -> 1 [] pc = "fetchTypes" -> 2
    [] pc = "transform" -> 3 [] OTHER -> 4

BuilderRank ==
  CASE builder = "init" -> 0 [] builder = "libs" -> 1 [] builder = "jsx" -> 2
    [] builder = "entries" -> 3 [] OTHER -> 4

Progress(ts, b) ==
  LET upto[n \in 0..Len(ts)] ==
        IF n = 0 THEN 0
        ELSE upto[n - 1] + 1 + PcRank(ts[n].pc) + ts[n].at + 4 * ts[n].attempt
  IN  upto[Len(ts)] + b

\* C1: with import cycles in the module graph (a.ts <-> b.ts, self.ts -> self.ts)
\* the chain of calls is finite and every build comes to rest: every step raises
\* a bounded measure, the number of calls stays below the cap of the model, a
\* build that is not at rest can take a step, and at rest every file of a cycle
\* that was loaded is held, with its final text, under exactly one key.
C1_CyclicLoadsTerminate ==
  /\ [](/\ Len(tasks) < MaxTasks
        /\ Quiescent \/ BuilderCanStep \/ \E j \in TaskIds : CanStep(j)
        /\ Quiescent =>
             \A j \in TaskIds :
               InCycle(tasks[j].realUrl) =>
                 /\ Cardinality(KeysOf(tasks[j].realUrl)) = 1
                 /\ \A p \in KeysOf(tasks[j].realUrl) :
                      /\ WritesOf(writes, p).final = 1
                      /\ store[p].body = Disk[tasks[j].realUrl].body)
  /\ [][Progress(tasks', BuilderRank') > Progress(tasks, BuilderRank)]_vars

\* a.ts imports b.ts and b.ts imports a.ts: both are stored, and the call for
\* "../p/a.ts" made from b.ts found the path reserved
C1_Witness ==
  /\ Quiescent
  /\ build.entryFiles = <<"file:///p/a.ts">>
  /\ {"/p/a.ts", "/p/b.ts"} \subseteq DOMAIN store
  /\ store["/p/a.ts"].imports = <<"/p/b.ts">>
  /\ store["/p/b.ts"].imports = <<"/p/a.ts">>
  /\ \E j \in TaskIds :
       tasks[j].arg = "../p/a.ts" /\ tasks[j].pc = "done" /\ tasks[j].at = 0

\* C2: for every path at most one call of loadFile enters #transformSourceFile;
\* every other call that got the path returned that same path and made no call
\* of its own.
C2_TransformStartedOncePerPath ==
  \A j \in TaskIds :
    tasks[j].fakePath # "" =>
      /\ Cardinality(Transformers(tasks[j].fakePath)) <= 1
      /\ tasks[j].at = 0 =>
           /\ tasks[j].pc = "done"
           /\ tasks[j].result = tasks[j].fakePath
           /\ CallsOf(j) = {}
           /\ Has(store, tasks[j].fakePath)

\* two calls for one path were pending together; one transforms, the other
\* returned the path
C2_Witness ==
  \E i, j \in TaskIds :
    /\ i # j
    /\ tasks[i].fakePath = tasks[j].fakePath
    /\ tasks[i].pc = "transform"
    /\ tasks[j].pc = "done" /\ tasks[j].at = 0
    /\ tasks[i].parent = 0 /\ tasks[j].parent = 0

\* C3 as stated: over all calls of loadFile no URL is read from disk or
\* requested from the network more than once.
C3_FetchedOncePerUrl ==
  \A i, j \in TaskIds :
    \A k \in DOMAIN tasks[i].issued, l \in DOMAIN tasks[j].issued :
      tasks[i].issued[k] = tasks[j].issued[l] => i = j /\ k = l

\* C4 as stated: a call of loadFile that is suspended in its fetch has already
\* written the placeholder of its path.
C4_ReservedBeforeFirstAwait ==
  \A j \in TaskIds :
    LET target == IF tasks[j].asUrl # NullUrl THEN tasks[j].asUrl ELSE tasks[j].url
    IN  tasks[j].pc = "fetch" /\ CanFakePath(target) =>
          Has(store, urlToFakePath(target))

\* C5: in every step keys stay, a new key starts as the placeholder, the
\* placeholder and the final text are each written at most once per key, the
\* final text is written over the placeholder only, and a key that holds its
\* final text is not written again.
C5_StoreLifecycle ==
  [][/\ \A p \in DOMAIN store :
          /\ p \in DOMAIN store'
          /\ WritesOf(writes, p).final >= 1 =>
               store'[p] = store[p] /\ WritesOf(writes', p) = WritesOf(writes, p)
     /\ \A p \in DOMAIN store' :
          /\ WritesOf(writes', p).placeholder <= 1
          /\ WritesOf(writes', p).final <= 1
          /\ p \notin DOMAIN store =>
               store'[p] = EmptyText /\ WritesOf(writes', p) = [placeholder |-> 1, final |-> 0]
          /\ WritesOf(writes', p).final > WritesOf(writes, p).final =>
               /\ p \in DOMAIN store
               /\ store[p] = EmptyText
               /\ WritesOf(writes, p) = [placeholder |-> 1, final |-> 0]
          /\ WritesOf(writes', p) = WritesOf(writes, p) /\ p \in DOMAIN store =>
               store'[p] = store[p]]_vars

\* a key holds its final text and a later call for the same path has returned
C5_Witness ==
  \E j \in TaskIds :
    /\ tasks[j].pc = "done" /\ tasks[j].at = 0 /\ tasks[j].fakePath # ""
    /\ WritesOf(writes, tasks[j].fakePath) = [placeholder |-> 1, final |-> 1]
    /\ store[tasks[j].fakePath] # EmptyText

\* C6 as stated: two calls of loadFile whose paths were derived from different
\* URLs have different paths.
C6_UrlToPathInjective ==
  \A i, j \in TaskIds :
    LET ui == IF tasks[i].asUrl # NullUrl THEN tasks[i].asUrl ELSE tasks[i].realUrl
        uj == IF tasks[j].asUrl # NullUrl THEN tasks[j].asUrl ELSE tasks[j].realUrl
    IN  tasks[i].fakePath # "" /\ tasks[j].fakePath # "" /\ ui # uj =>
          tasks[i].fakePath # tasks[j].fakePath

(***************************************************************************)
(* Properties of resolution.                                               *)
(***************************************************************************)
\* an import-map entry with this prefix matches the specifier
Matches(spec, prefix) ==
  spec = prefix \/ (EndsWith(prefix, "/") /\ StartsWith(spec, prefix))

\* the entries of a sequence of entries that match the specifier
Matching(entries, spec) ==
  {entries[k] : k \in {k \in DOMAIN entries : Matches(spec, entries[k].prefix)}}

\* the entry with the longest prefix
Longest(entries) ==
  CHOOSE e \in entries : \A f \in entries : Len(f.prefix) <= Len(e.prefix)

\* the scopes whose prefix is a prefix of the source URL
ApplicableScopes(map, source) ==
  {map.scopes[k] : k \in {k \in DOMAIN map.scopes : StartsWith(source, map.scopes[k].scope)}}

\* the matching entries of the applicable scopes
ScopedMatching(map, source, spec) ==
  UNION {Matching(sc.mappings, spec) : sc \in ApplicableScopes(map, source)}

\* the applicable scope with the longest prefix
LongestScope(map, source) ==
  CHOOSE sc \in ApplicableScopes(map, source) :
    \A other \in ApplicableScopes(map, source) : Len(other.scope) <= Len(sc.scope)

\* C7 as stated, for import maps with one scope: when an entry of the scope
\* matches the specifier and the scope applies to the source URL, the result is
\* the target of a matching entry of the scope plus the remainder.
C7_ScopedEntryOverridesTopLevel ==
  builder = "resolved" /\ Len(importMap.scopes) = 1
    /\ ScopedMatching(importMap, sourceUrl, specifier) # {} =>
      /\ resolved.ok
      /\ resolved.url \in
           {Rewritten(specifier, e) : e \in ScopedMatching(importMap, sourceUrl, specifier)}

\* C8 as stated, for import maps without top-level imports: when the applicable
\* scope with the longest prefix has an entry matching the specifier, the
\* result is the target of a matching entry of that scope plus the remainder.
C8_LongestScopeDecides ==
  builder = "resolved" /\ importMap.imports = <<>>
    /\ ApplicableScopes(importMap, sourceUrl) # {}
    /\ Matching(LongestScope(importMap, sourceUrl).mappings, specifier) # {} =>
      /\ resolved.ok
      /\ resolved.url \in
           {Rewritten(specifier, e) :
              e \in Matching(LongestScope(importMap, sourceUrl).mappings, specifier)}

\* C9: when no entry of an applicable scope matches the specifier and entries
\* of the top-level imports do, the result is the target of the matching
\* top-level entry with the longest prefix followed by the part of the
\* specifier after that prefix (read as a URL: "." and ".." segments of the
\* remainder are resolved), in whatever order the entries are listed.
C9_LongestTopLevelPrefixWins ==
  builder = "resolved"
    /\ ScopedMatching(importMap, sourceUrl, specifier) = {}
    /\ Matching(importMap.imports, specifier) # {} =>
      LET e == Longest(Matching(importMap.imports, specifier))
      IN  /\ resolved.ok
          /\ resolved.url = ParseUrl(e.replacement \o Slice(specifier, Len(e.prefix)))

\* {"a/b/": B, "a/": A} in this order resolves "a/b/c" to B + "c"
C9_Witness ==
  /\ builder = "resolved"
  /\ specifier = "a/b/c"
  /\ Len(importMap.imports) = 2
  /\ importMap.imports[1].prefix = "a/b/"
  /\ importMap.imports[2].prefix = "a/"
  /\ ScopedMatching(importMap, sourceUrl, specifier) = {}
  /\ resolved.url = "https://top.example/B/c"

\* C10: a call of #transformSpecifier whose specifier matches no import-map
\* entry returns the specifier unchanged without calling loadFile (nothing is
\* read or requested, no path is reserved) when the specifier has no scheme and
\* starts with neither "." nor "/"; otherwise loadFile is called with the
\* specifier resolved against the URL of the importing file.
C10_BareSpecifierFails ==
  \A j \in TaskIds :
    LET t == tasks[j]
        source == tasks[t.parent].realUrl
    IN  /\ t.op = "specifier"
        /\ tasks[t.parent].attempt = 1
        /\ Matching(importMap.imports, t.arg) = {}
        /\ ScopedMatching(importMap, source, t.arg) = {}
        => IF ~HasScheme(t.arg) /\ CharAt(t.arg, 1) \notin {".", "/"}
           THEN /\ t.pc = "done" /\ t.result = t.arg /\ t.errs = <<"bare">>
                /\ t.url = NullUrl /\ t.issued = <<>> /\ t.fakePath = ""
                /\ Cardinality(DOMAIN store) =
                     1 + Cardinality({k \in TaskIds : tasks[k].at > 0})
           ELSE /\ t.url # NullUrl
                /\ t.url = (IF HasScheme(t.arg) THEN ParseUrl(t.arg)
                            ELSE IF CharAt(t.arg, 1) = "/"
                            THEN ParseUrl(Origin(source) \o t.arg)
                            ELSE ParseUrl(BaseDir(source) \o t.arg))

\* e.ts imports "zod" (bare), "./missing.ts" and "ftp://h.example/k.ts": the
\* first fails in resolution, the others are resolved and handed to loadFile
C10_Witness ==
  /\ Quiescent
  /\ \E j \in TaskIds :
       tasks[j].arg = "zod" /\ tasks[j].errs = <<"bare">> /\ tasks[j].issued = <<>>
  /\ \E j \in TaskIds :
       /\ tasks[j].arg = "./missing.ts"
       /\ tasks[j].url = "file:///p/missing.ts"
       /\ tasks[j].issued = <<"file:///p/missing.ts">>
  /\ \E j \in TaskIds :
       tasks[j].arg = "ftp://h.example/k.ts" /\ tasks[j].url = "ftp://h.example/k.ts"

(***************************************************************************)
(* Failures of dependencies.                                               *)
(***************************************************************************)
\* the call of loadFile j has run #transformSourceFile to its end and stored
\* the rewritten text
Transformed(j) ==
  /\ tasks[j].pc = "done"
  /\ tasks[j].at > 0
  /\ \A n \in 1..Len(tasks[j].errs) : tasks[j].errs[n] # "transform"

\* the text of reference n of group k in a text
RefText(text, k, n) ==
  CASE k = 1 -> text.jsx
    [] k = 2 -> text.paths[n]
    [] k = 3 -> text.libs[n]
    [] OTHER -> text.imports[n]

\* the calls of #transformSpecifier that failed (in the resolution or in
\* loadFile) and whose file has been stored
FailedRefs ==
  {j \in TaskIds : /\ tasks[j].op = "specifier"
                   /\ tasks[j].errs # <<>>
                   /\ Transformed(tasks[j].parent)}

\* C11: when resolving or loading a referenced dependency fails, the text of
\* the reference in the stored, rewritten file is the text it had in the file
\* as fetched, for the pragma value, path references and import specifiers
\* alike.
C11_FailedReferenceKeepsText ==
  \A j \in FailedRefs :
    LET t == tasks[j]
        p == tasks[t.parent]
    IN  RefText(store[p.fakePath], t.phase, t.slot) = RefText(p.text, t.phase, t.slot)

\* what happens instead: the failed import "./missing.d.ts" of h.tsx is stored
\* as "./missing.js" and its pragma value "react" as "react/jsx-runtime"
StoredFailedReferences ==
  \A j \in FailedRefs :
    LET t == tasks[j]
        p == tasks[t.parent]
        orig == RefText(p.text, t.phase, t.slot)
    IN  RefText(store[p.fakePath], t.phase, t.slot) =
          CASE t.phase = 1 -> orig \o "/jsx-runtime"
            [] t.phase = 4 -> toFakeJs(orig)
            [] OTHER -> orig

\* the calls the transform of call j made that failed, and those that loaded
\* their file
FailedCallsOf(j) == {c \in CallsOf(j) : tasks[c].errs # <<>>}

LoadedCallsOf(j) ==
  {c \in CallsOf(j) : tasks[c].op = "specifier" /\ tasks[c].errs = <<>>}

\* the path has been reserved and written with a final text since
Stored(path) ==
  /\ path \in DOMAIN store
  /\ WritesOf(writes, path).final >= 1

\* C12: once a build has come to rest, a file one of whose dependencies failed
\* has been loaded all the same: its loadFile returned its path, its final
\* text is stored, every failed call returned to the transform instead of
\* throwing, and every dependency that could be loaded is stored and its
\* reference rewritten to the path it was stored under.  (It holds of every
\* file but lib.bad.d.ts, whose import("a") makes the overwrite throw.)
C12_FailureIsContained ==
  Quiescent =>
    \A j \in TaskIds :
      tasks[j].at > 0 /\ FailedCallsOf(j) # {} =>
        /\ tasks[j].pc = "done"
        /\ tasks[j].errs = <<>>
        /\ tasks[j].result = tasks[j].fakePath
        /\ Stored(tasks[j].fakePath)
        /\ store[tasks[j].fakePath].body = tasks[j].text.body
        /\ \A c \in FailedCallsOf(j) : tasks[c].pc = "done"
        /\ \A c \in LoadedCallsOf(j) :
             /\ tasks[c].pc = "done"
             /\ Stored(tasks[c].result)
             /\ tasks[c].result = tasks[c].fakePath
             /\ RefText(store[tasks[j].fakePath], tasks[c].phase, tasks[c].slot) =
                  (IF tasks[c].phase = 4 THEN toFakeJs(tasks[c].result)
                   ELSE tasks[c].result)

\* the calls of loadFile createDenoProgram awaits itself (the jsx runtime and
\* the entry files), and those among them that threw
EntryCalls == BuilderCalls(2) \cup BuilderCalls(3)

FailedEntryCalls == {j \in EntryCalls : tasks[j].errs # <<>>}

\* the calls of loadLibFile createDenoProgram made for compilerOptions.lib
\* that found the library neither at its URL nor among the bundled files
FailedLibCalls == {j \in BuilderCalls(1) : Len(tasks[j].errs) = 2}

\* C13: when the load of an entry file fails, createDenoProgram creates no
\* program and rejects; the failure of a library never does that: a build is
\* aborted only when a load of an entry file (or of the jsx runtime) failed.
C13_EntryFailureAbortsBuild ==
  /\ FailedEntryCalls # {} => builder # "program"
  /\ FailedEntryCalls # {} /\ Quiescent => builder = "aborted"
  /\ builder = "aborted" => FailedEntryCalls # {}
  /\ \A j \in BuilderCalls(1) : tasks[j].pc # "failed"
  /\ FailedLibCalls # {} /\ FailedEntryCalls = {} /\ Quiescent => builder = "program"

\* the library "nope" exists nowhere and the entry missing.ts cannot be read:
\* the build went on after the first and is aborted by the second
C13_Witness ==
  /\ builder = "aborted"
  /\ FailedLibCalls # {}
  /\ \E j \in FailedEntryCalls : tasks[j].url = "file:///p/missing.ts"

(***************************************************************************)
(* Properties of memoizedFetch.                                            *)
(***************************************************************************)
\* C14: a call of memoizedFetch made while the entry of its URL is at most
\* one day old requests nothing and returns the value of the entry; a call
\* made when the entry is older makes exactly one request, and when that is
\* answered the entry holds the new value with the date of the answer or a
\* later one, so a call within a day of it finds a fresh entry.
C14_FreshnessWindow ==
  \A i \in 1..Len(calls) :
    LET c == calls[i]
    IN  /\ c.age >= 0 /\ c.age <= FreshnessWindow =>
             /\ c.requests = 0
             /\ c.pc = "done"
             /\ c.doneAt = c.calledAt
             /\ c.value = Net[c.url]
        /\ c.age > FreshnessWindow =>
             /\ c.requests = 1
             /\ c.pc = "done" =>
                  /\ Has(memo, c.url)
                  /\ memo[c.url].date >= c.doneAt
                  /\ memo[c.url].value = c.value

\* three calls on one URL: the first finds no entry, the second, a day and a
\* millisecond later, an entry too old and requests the URL anew, the third
\* is answered from the entry the second stored
C14_Witness ==
  /\ Len(calls) = 3
  /\ \A i \in 1..3 : calls[i].url = "https://h.example/x.ts" /\ calls[i].pc = "done"
  /\ calls[1].age = -1 /\ calls[1].requests = 1
  /\ calls[2].age = FreshnessWindow + 1 /\ calls[2].requests = 1
  /\ calls[3].age = 0 /\ calls[3].requests = 0
  /\ memo["https://h.example/x.ts"].date = FreshnessWindow + 1

(***************************************************************************)
(* Properties of the fetcher.                                              *)
(***************************************************************************)
\* the calls of loadFile whose request was answered with an
\* x-typescript-types header and that went on to reserve or find their path
TypedCalls ==
  {j \in TaskIds : /\ tasks[j].pc \in {"transform", "done"}
                   /\ tasks[j].errs = <<>>
                   /\ tasks[j].fakePath # ""
                   /\ Protocol(tasks[j].url) = "https:"
                   /\ tasks[j].url \in DOMAIN Net
                   /\ Net[tasks[j].url].types # ""}

\* the response to the request for the types of the response to url
TypesOf(url) == Net[NewUrl(Net[url].types, Net[url].url)]

\* C15 as claimed: when the response carries a type-declaration header, the
\* text stored is that of the declaration file and the path it is stored
\* under, which loadFile returns, is the path of the URL asked for.
C15_TypesStoredAtRequestedPath ==
  \A j \in TypedCalls :
    /\ tasks[j].fakePath = urlToFakePath(tasks[j].url)
    /\ Transformed(j) =>
         /\ tasks[j].result = tasks[j].fakePath
         /\ store[tasks[j].fakePath].body = TypesOf(tasks[j].url).text.body

\* C15 as the code has it: the text stored is that of the declaration file,
\* and the path it is stored under, which loadFile returns, is the path of the
\* URL of the declaration file's response, with ".d.ts" added when it does
\* not end in it.
C15_TypesStoredAtTypesPath ==
  \A j \in TypedCalls :
    LET typesUrl == TypesOf(tasks[j].url).url
        withSuffix == IF EndsWith(typesUrl, ".d.ts") THEN typesUrl
                      ELSE typesUrl \o ".d.ts"
    IN  /\ tasks[j].realUrl = ParseUrl(withSuffix)
        /\ tasks[j].fakePath = urlToFakePath(ParseUrl(withSuffix))
        /\ tasks[j].fakePath # urlToFakePath(tasks[j].url)
        /\ Transformed(j) =>
             /\ tasks[j].result = tasks[j].fakePath
             /\ store[tasks[j].fakePath].body = TypesOf(tasks[j].url).text.body

\* t.ts imports https://h.example/t.js, whose response names /types/t: the
\* text of https://h.example/types/t is stored at /https/h.example/types/t.d.ts
\* and the import rewritten to that path with ".js" for ".d.ts"
C15_Witness ==
  /\ Quiescent
  /\ \E j \in TypedCalls :
       /\ tasks[j].url = "https://h.example/t.js"
       /\ tasks[j].result = "/https/h.example/types/t.d.ts"
  /\ "/https/h.example/t.js" \notin DOMAIN store
  /\ store["/https/h.example/types/t.d.ts"].body = "https://h.example/types/t"
  /\ store["/p/t.ts"].imports[1] = "/https/h.example/types/t.js"

\* the calls of loadFile whose request was answered without an
\* x-typescript-types header and that went on to reserve or find their path
UntypedCalls ==
  {j \in TaskIds : /\ tasks[j].pc \in {"transform", "done"}
                   /\ tasks[j].errs = <<>>
                   /\ tasks[j].fakePath # ""
                   /\ Protocol(FetchTarget(tasks[j].url)) = "https:"
                   /\ FetchTarget(tasks[j].url) \in DOMAIN Net
                   /\ Net[FetchTarget(tasks[j].url)].types = ""}

\* C16: the URL the fetcher returns for a response without a
\* type-declaration header, and with it the path of the stored file, is the
\* response's URL with ".ts" added when it ends in no script extension, and
\* the response's URL itself when it does.
C16_GuessedSuffixAppended ==
  \A j \in UntypedCalls :
    LET respUrl == Net[FetchTarget(tasks[j].url)].url
    IN  /\ tasks[j].realUrl = ParseUrl(GuessedRespUrl(respUrl))
        /\ tasks[j].fakePath = urlToFakePath(ParseUrl(GuessedRespUrl(respUrl)))

\* the errors of the fetch stage: #fetchFile threw for the protocol, or the
\* read or the request failed
FetchErrors == {"protocol", "fetch"}

\* the calls all of whose loadFile calls failed in the fetch stage (a call of
\* loadLibFile makes two)
FailedInFetch(ts) ==
  {j \in 1..Len(ts) : /\ Len(ts[j].errs) = (IF ts[j].op = "lib" THEN 2 ELSE 1)
                      /\ \A n \in 1..Len(ts[j].errs) : ts[j].errs[n] \in FetchErrors
                      /\ Settled(ts[j])}

\* C17: a loadFile call that fails in the fetch stage reserves nothing: the
\* step in which it fails leaves the keys and the texts of the store as they
\* were, and no path was reserved in its name.
C17_FetchFailureLeavesStore ==
  [][/\ (\E j \in 1..Len(tasks) :
           /\ Len(tasks'[j].errs) > Len(tasks[j].errs)
           /\ tasks'[j].errs[Len(tasks'[j].errs)] \in FetchErrors)
        => store' = store
     /\ \A j \in FailedInFetch(tasks') :
          /\ tasks'[j].fakePath = ""
          /\ tasks'[j].at = 0
          /\ \A p \in DOMAIN origin' : origin'[p] # tasks'[j].url]_vars

\* e.ts at rest: "./missing.ts" failed in the read, the ftp URL for its
\* protocol, and the store has no entry for either
C17_Witness ==
  /\ Quiescent
  /\ \E j \in FailedInFetch(tasks) :
       tasks[j].url = "file:///p/missing.ts" /\ tasks[j].errs = <<"fetch">>
  /\ \E j \in FailedInFetch(tasks) :
       tasks[j].url = "ftp://h.example/k.ts" /\ tasks[j].errs = <<"protocol">>
  /\ DOMAIN store = {PackageJsonPath, "/p/e.ts", "/https/esm.example/lodash"}

(***************************************************************************)
(* Properties of loadLibFile.                                              *)
(***************************************************************************)
\* the calls of loadLibFile
LibCalls == {j \in TaskIds : tasks[j].op = "lib"}

\* those whose first loadFile threw and whose second returned
FallbackCalls ==
  {j \in LibCalls : tasks[j].attempt = 2 /\ tasks[j].pc = "done" /\ Len(tasks[j].errs) = 1}

\* the path loadFile(fileUrl) gives a library
PrimaryPath(libName) == urlToFakePath(LibFileUrl(libName))

\* C18: when the load of a library from the primary location failed, at
\* whatever stage, and the load of the bundled file succeeded, then the second
\* load returned the path of the primary location, and once the build has come
\* to rest that path holds the transformed text of the bundled file, not the
\* placeholder.
C18_FallbackStoredAtPrimaryPath ==
  \A j \in FallbackCalls :
    /\ tasks[j].fakePath = PrimaryPath(tasks[j].arg)
    /\ Has(store, PrimaryPath(tasks[j].arg))
    /\ Quiescent =>
         /\ store[PrimaryPath(tasks[j].arg)] # EmptyText
         /\ store[PrimaryPath(tasks[j].arg)].body = Disk[LocalLibUrl(tasks[j].arg)].body
         /\ WritesOf(writes, PrimaryPath(tasks[j].arg)).final = 1

\* the calls of loadLibFile both of whose loadFile calls threw
MissingLibCalls == {j \in LibCalls : Len(tasks[j].errs) = 2}

C20_ReadFileCases ==
  builder = "readDone" =>
    LET path == lastRead.path
        key == FoundName(path)
    IN  /\ ~Has(store, key) => lastRead.text = Undefined
        /\ Has(store, key) /\ key = path => lastRead.text = store[path]
        /\ Has(store, key) /\ key # path =>
             /\ lastRead.text.body = "/// <reference no-default-lib=\"true\" />"
             /\ lastRead.text.paths = <<key>>
             /\ lastRead.text # store[key]
        /\ lastRead.exists <=> lastRead.text # Undefined
        /\ Has(store, path) /\ key = path /\ store[path] = EmptyText =>
             lastRead.exists /\ lastRead.text = EmptyText

\* /https/deno.example/dts/dom is read while lib.dom.d.ts is reserved only: the
\* file exists and its text is the two lines that refer to lib.dom.d.ts
C20_Witness ==
  /\ builder = "readDone"
  /\ lastRead.path = "/https/deno.example/dts/dom"
  /\ Has(store, "/https/deno.example/dts/lib.dom.d.ts")
  /\ store["/https/deno.example/dts/lib.dom.d.ts"] = EmptyText
  /\ lastRead.exists
  /\ lastRead.text.paths = <<"/https/deno.example/dts/lib.dom.d.ts">>
  /\ "/p/a.ts" \in DOMAIN store

\* the keys of the store of which the path read is the jsx-runtime path
JsxRuntimeOwners ==
  {P \in DOMAIN store : lastRead.path = P \o "/jsx-runtime"}

\* C21: for a key P of the store, a read of P followed by "/jsx-runtime" looks
\* up exactly P: fileExists is true and readFile returns the two lines that
\* refer to P.
C21_JsxRuntimeSuffixStripped ==
  builder = "readDone" =>
    \A P \in JsxRuntimeOwners :
      /\ FoundName(lastRead.path) = P
      /\ lastRead.exists
      /\ lastRead.text = RedirectStub(P)

\* the calls the transform of task i made for group k
GroupCalls(i, k) ==
  {j \in TaskIds : tasks[j].parent = i /\ tasks[j].phase = k}

\* the transforms that have come to an import/export declaration or dynamic
\* import: a call for one of them was made, or the rewritten text was stored
AtImports ==
  {i \in TaskIds : \/ GroupCalls(i, 4) # {}
                   \/ tasks[i].pc = "done" /\ tasks[i].at > 0}

\* C22: when a transform resolves, loads or rewrites an import/export or
\* dynamic-import specifier of a file, loadLibFile has been called for every
\* lib reference of the file and every one of these calls has returned.
C22_LibsBeforeImports ==
  \A i \in AtImports :
    /\ \A n \in 1..Len(tasks[i].text.libs) :
         \E j \in GroupCalls(i, 3) :
           /\ tasks[j].slot = n
           /\ tasks[j].op = "lib"
           /\ tasks[j].arg = tasks[i].text.libs[n]
    /\ \A j \in GroupCalls(i, 3) : tasks[j].pc = "done"

\* f.tsx, with a lib reference and an import: the call for the import is in
\* flight, the library was loaded by the primary attempt of loadLibFile
C22_Witness ==
  \E i \in TaskIds :
    /\ tasks[i].pc = "transform"
    /\ tasks[i].text.libs # <<>>
    /\ \E j \in GroupCalls(i, 4) : ~Settled(tasks[j])
    /\ \E j \in GroupCalls(i, 3) :
         /\ tasks[j].pc = "done"
         /\ tasks[j].errs = <<>>
         /\ Has(store, tasks[j].result)

\* C23 as stated: every dependency of a file is loaded concurrently with its
\* siblings, so no call for a dependency of a file is made when the call for
\* another dependency of the same file has already returned.
C23_AllConcurrent ==
  [][\A j \in (Len(tasks) + 1)..Len(tasks') :
       tasks'[j].parent # 0 =>
         \A l \in TaskIds :
           tasks[l].parent = tasks'[j].parent => ~Settled(tasks[l])]_vars

\* C23: the dependencies of a file are loaded group by group, in the order
\* pragma, path references, lib references, imports: the calls of one group
\* are all made in the same step, and only when every call of the groups
\* before it has returned.
C23_ConcurrentWithinGroup ==
  \A i \in TaskIds : \A k \in 1..LastPhase :
    GroupCalls(i, k) # {} =>
      /\ \A n \in 1..Len(Items(tasks[i].text, k)) :
           \E j \in GroupCalls(i, k) : tasks[j].slot = n
      /\ \A m \in 1..(k - 1) :
           /\ \A n \in 1..Len(Items(tasks[i].text, m)) :
                \E j \in GroupCalls(i, m) : tasks[j].slot = n
           /\ \A j \in GroupCalls(i, m) : Settled(tasks[j])

\* h.tsx: the calls for its two imports are in flight together, made after
\* the calls for the pragma, the path reference and the lib reference returned
C23_Witness ==
  \E i \in TaskIds :
    /\ Cardinality({j \in GroupCalls(i, 4) : ~Settled(tasks[j])}) >= 2
    /\ \A k \in 1..3 : GroupCalls(i, k) # {}
    /\ \A k \in 1..3 : \A j \in GroupCalls(i, k) : Settled(tasks[j])

\* the imports of the files whose rewritten text was stored: the task of the
\* file and the number of the import
RewrittenImports ==
  {<<i, n>> \in TaskIds \X (1..3) :
     /\ Transformed(i)
     /\ Has(store, tasks[i].fakePath)
     /\ origin[tasks[i].fakePath] = tasks[i].realUrl
     /\ n \in 1..Len(tasks[i].text.imports)}

\* the literal after an overwrite of the characters between its quotes
OverwrittenInQuotes(lead, spec, content) ==
  Blanks(lead) \o "\"" \o content \o "\""

\* C24: whatever the number of characters before the string literal of an
\* import, the characters replaced are those between its quotes: the literal
\* of the stored text is the new content in quotes after the same blanks.
C24_RangeIsBetweenQuotes ==
  \A p \in RewrittenImports :
    LET i == p[1]
        n == p[2]
        lead == tasks[i].text.leads[n]
        content == toFakeJs(ChildResult(tasks, i, 4, n))
    IN  /\ Overwritten(lead, tasks[i].text.imports[n], content)
             = OverwrittenInQuotes(lead, tasks[i].text.imports[n], content)
        /\ store[tasks[i].fakePath].imports[n] = content

\* the orders in which the elements of the sequence q can be listed
Reorderings(q) ==
  {[i \in DOMAIN q |-> q[p[i]]] :
     p \in {f \in [DOMAIN q -> DOMAIN q] : \A i, j \in DOMAIN q : i # j => f[i] # f[j]}}

\* the import maps with the entries of map: its imports, its scopes and the
\* mappings of each scope in every order
ReorderedMaps(map) ==
  {[imports |-> top,
    scopes |-> [i \in DOMAIN ss |-> [scope |-> ss[i].scope, mappings |-> ms[i]]]] :
     top \in Reorderings(map.imports),
     ss \in Reorderings(map.scopes),
     ms \in [DOMAIN map.scopes ->
               UNION {Reorderings(map.scopes[i].mappings) : i \in DOMAIN map.scopes}]}

\* m lists every scope with its own mappings
KeepsMappings(m, map) ==
  \A i \in DOMAIN m.scopes : \E j \in DOMAIN map.scopes :
    /\ m.scopes[i].scope = map.scopes[j].scope
    /\ m.scopes[i].mappings \in Reorderings(map.scopes[j].mappings)

\* C25: the URL resolved for a specifier and a source URL is the same for
\* every order in which the imports, the scopes and the mappings of a scope
\* are listed in the import map.
C25_OrderIndependent ==
  builder = "resolved" =>
    \A m \in ReorderedMaps(importMap) :
      KeepsMappings(m, importMap) =>
        resolveSpecifier(m, sourceUrl, specifier) = resolved

\* the keys whose text is the placeholder although the loadFile call that wrote
\* it has ended: no call that reserved the key (the origin of the key is its
\* realUrl) is still in its transform
StaleReservations ==
  {path \in DOMAIN store :
     /\ path # PackageJsonPath
     /\ store[path] = EmptyText
     /\ WritesOf(writes, path).final = 0
     /\ ~\E i \in TaskIds : tasks[i].pc = "transform" /\ tasks[i].fakePath = path}

\* C26: when the loading of a build has ended without a failure of
\* createDenoProgram, no key of the store holds the placeholder of a load that
\* did not finish, and no call returned such a key as the path of a loaded
\* file.
C26_NoStaleReservation ==
  builder = "program" =>
    /\ StaleReservations = {}
    /\ \A j \in TaskIds :
         tasks[j].pc = "done" /\ tasks[j].errs = <<>> /\ Has(store, tasks[j].result) =>
           WritesOf(writes, tasks[j].result).final > 0

\* the keys loadFile has stored the transformed text of
LoadedKeys ==
  {path \in DOMAIN store : path # PackageJsonPath /\ WritesOf(writes, path).final > 0}

\* C27: every file loadFile stored is read back under its key: readFile of
\* the key returns the stored text and fileExists is true.
C27_StoredFilesReadBack ==
  \A K \in LoadedKeys :
    /\ readFile(store, K) = store[K]
    /\ fileExists(store, K)

\* the calls of loadLibFile that returned after loadFile stored the library
LoadedLibCalls ==
  {j \in TaskIds : /\ tasks[j].op = "lib"
                   /\ tasks[j].pc = "done"
                   /\ tasks[j].result # ""
                   /\ Has(store, tasks[j].result)}

\* C28: after loadLibFile(N) loaded a library, readFile changes the name
\* <default library location>/N to the key under which the library is stored.
C28_LibNamesAgree ==
  \A j \in LoadedLibCalls :
    FoundName(DefaultLibLocation \o "/" \o tasks[j].arg) = tasks[j].result

\* the loads whose read or request is in flight and will be answered with a
\* text
InFlight ==
  {i \in TaskIds :
     \/ /\ tasks[i].pc = "fetch"
        /\ Protocol(tasks[i].fetchUrl) = "file:"
        /\ tasks[i].fetchUrl \in DOMAIN Disk
     \/ /\ tasks[i].pc = "fetch"
        /\ Protocol(tasks[i].fetchUrl) = "https:"
        /\ tasks[i].fetchUrl \in DOMAIN Net
        /\ Net[tasks[i].fetchUrl].types = ""
     \/ /\ tasks[i].pc = "fetchTypes"
        /\ tasks[i].fetchUrl \in DOMAIN Net}

\* the text load i is answered with and the path loadFile derives for it
AnswerText(i) ==
  IF Protocol(tasks[i].fetchUrl) = "file:" THEN Disk[tasks[i].fetchUrl]
  ELSE Net[tasks[i].fetchUrl].text

AnswerPath(i) ==
  FakePathOf(tasks[i],
    IF Protocol(tasks[i].fetchUrl) = "file:" THEN tasks[i].url
    ELSE IF tasks[i].pc = "fetchTypes"
    THEN ParseUrl(TypesRespUrl(Net[tasks[i].fetchUrl].url))
    ELSE ParseUrl(Net[tasks[i].fetchUrl].url))

\* the loads in flight of which the first to be answered reserves its path
\* and stores its text there
Racing ==
  {i \in InFlight : ~Has(store, AnswerPath(i))}

\* C29: the final store is the same for every order in which the loads
\* complete: two loads that are in flight together and will be stored under
\* the same path carry the same text, so whichever is answered first, the path
\* ends with the same content.
C29_CompletionOrderIrrelevant ==
  \A i, j \in Racing :
    AnswerPath(i) = AnswerPath(j) => AnswerText(i) = AnswerText(j)

\* the two final stores of the build of g.ts
C29_DiskTextWins ==
  /\ Quiescent
  /\ Has(store, "/https/h.example/x.ts")
  /\ store["/https/h.example/x.ts"].body = "x on disk"

C29_NetTextWins ==
  /\ Quiescent
  /\ Has(store, "/https/h.example/x.ts")
  /\ store["/https/h.example/x.ts"].body = "x v2"


====
